---- MODULE Spec2Model ----
(***************************************************************************)
(* Model of src/dispatchers/dispatcher.ts: the Dispatcher tree (constructor *)
(* and _dispose), and DispatcherConnection.dispatch with its wait-operation *)
(* protocol.  Nodes are numbered in construction order; node 1 is the Root  *)
(* that the DispatcherConnection constructor creates.                       *)
(***************************************************************************)
EXTENDS Integers, Sequences, FiniteSets, TLC

\* Most dispatchers ever constructed on the connection (the Root included).
MaxNodes == 3
\* Most dispatchers constructed while messages are being dispatched.
MaxConnNodes == 2
\* Most messages handed to dispatch(), of any shape.
MaxMsgs == 2
\* Most messages handed to dispatch() when all of them are well-formed.
MaxWaitMsgs == 4
\* Most events of its own that the nodes deliver.
MaxEvents == 2
\* Most messages handed to dispatch() while nodes deliver events.
MaxLifeMsgs == 1
\* Most messages handed to dispatch() when wait operations are interleaved.
MaxInterleavedMsgs == 4
\* Most ordinary calls dispatched among the interleaved wait operations.
MaxOrdinaryCalls == 1
\* Most messages handed to dispatch() when the invoked methods throw.
MaxThrowMsgs == 3
\* Most values (nested ones counted) in the payloads of one behaviour.
MaxPayloadSize == 3

\* Identifiers a caller may pass as `guid`; "" is the Root's.
Guids == {"", "a", "b"}
RootGuid == ""
RootNode == 1
NoNode == 0

VARIABLES
  nodes,           \* every Dispatcher object ever constructed, by number
  registry,        \* DispatcherConnection._dispatchers: guid -> node
  outbox,          \* every object handed to connection.onmessage, in order
  lastOp,          \* the call that ran last and how it ended
  msgs,            \* every message handed to dispatch(), by message id
  calls,           \* per message: where its dispatch() is suspended
  meta,            \* per message: the CallMetadata object it allocated
  waitOperations,  \* DispatcherConnection._waitOperations: waitId -> record
  hooks,           \* calls received by the instrumentation sink, in order
  invoked,         \* messages whose target method was invoked
  clock            \* next value of monotonicTime()

treeVars == <<nodes, registry, outbox, lastOp>>
callVars == <<msgs, calls, meta, waitOperations, hooks, invoked, clock>>
vars == <<nodes, registry, outbox, lastOp, msgs, calls, meta, waitOperations, hooks, invoked, clock>>

Node == 1..Len(nodes)

----------------------------------------------------------------------------
(* Maps.  A JavaScript Map keeps insertion order; a children map is a       *)
(* sequence of nodes, keyed by each node's _guid.                           *)

MapHas(map, guid) == \E i \in 1..Len(map) : nodes[map[i]].guid = guid

MapGet(map, guid) == map[CHOOSE i \in 1..Len(map) : nodes[map[i]].guid = guid]

RegistryDelete(reg, guid) == [g \in (DOMAIN reg) \ {guid} |-> reg[g]]

RegistrySet(reg, guid, n) == [g \in (DOMAIN reg) \cup {guid} |-> IF g = guid THEN n ELSE reg[g]]

\* connection._dispatchers.get(guid); NoNode stands for undefined.
Lookup(guid) == IF guid \in DOMAIN registry THEN registry[guid] ELSE NoNode

----------------------------------------------------------------------------
(* Payload values.  t is what _replaceDispatchersWithGuids tells apart:     *)
(* "falsy" (null, undefined, '', 0, false; s says which), "dispatcher" (n   *)
(* is the node), "array" (items), "object" (keys, and items in key order),  *)
(* "primitive" (any other value; s is its text).                            *)

Value(t, s, n, keys, items) == [t |-> t, s |-> s, n |-> n, keys |-> keys, items |-> items]

Falsy(s) == Value("falsy", s, NoNode, <<>>, <<>>)

Primitive(s) == Value("primitive", s, NoNode, <<>>, <<>>)

DispatcherRef(n) == Value("dispatcher", "", n, <<>>, <<>>)

Array(items) == Value("array", "", NoNode, <<>>, items)

Object(keys, items) == Value("object", "", NoNode, keys, items)

\* A string as a payload value: '' is falsy.
StringValue(str) == IF str = "" THEN Falsy("") ELSE Primitive(str)

\* Lines 270-285.
RECURSIVE ReplaceDispatchersWithGuids(_)
ReplaceDispatchersSkippingObjects(payload) ==
  IF payload.t = "falsy" THEN payload
  ELSE IF payload.t = "dispatcher"
    THEN Object(<<"guid">>, <<StringValue(nodes[payload.n].guid)>>)
  ELSE IF payload.t = "array"
    THEN Array([i \in 1..Len(payload.items) |-> ReplaceDispatchersWithGuids(payload.items[i])])
  ELSE payload

ReplaceDispatchersWithGuids(payload) ==
  IF payload.t = "falsy" THEN payload
  ELSE IF payload.t = "dispatcher"
    THEN Object(<<"guid">>, <<StringValue(nodes[payload.n].guid)>>)
  ELSE IF payload.t = "array"
    THEN Array([i \in 1..Len(payload.items) |-> ReplaceDispatchersWithGuids(payload.items[i])])
  ELSE IF payload.t = "object"
    THEN Object(payload.keys,
                [i \in 1..Len(payload.items) |-> ReplaceDispatchersWithGuids(payload.items[i])])
  ELSE payload

----------------------------------------------------------------------------
(* Outbound messages.  `raw`, `node` and `disposedAt` are not on the wire:  *)
(* they record the params before substitution, which Dispatcher object sent *)
(* the message and which nodes were marked disposed when it was sent.       *)

\* Lines 137-139.
SendMessageToClient(guid, method, params, n, disposedNow) ==
  [kind |-> "event", guid |-> guid, method |-> method,
   params |-> ReplaceDispatchersWithGuids(params), raw |-> params,
   node |-> n, disposedAt |-> disposedNow]

\* Each identifier is used with one kind of object; the Root's kind is ''.
TypeOf(guid) == IF guid = RootGuid THEN "" ELSE IF guid = "a" THEN "A" ELSE "B"

\* The initializer a node is constructed with: it refers to the parent.
InitializerOf(parent) ==
  IF parent = NoNode THEN Object(<<>>, <<>>)
  ELSE Object(<<"parent">>, <<DispatcherRef(parent)>>)

\* Lines 78-79: { type, initializer, guid } under the parent's _guid.
CreateMessageUnderOwnGuid(parent, n, guid, disposedNow) ==
  SendMessageToClient(guid, "__create__",
     Object(<<"type", "initializer", "guid">>,
            <<StringValue(TypeOf(guid)), InitializerOf(parent), StringValue(guid)>>),
     n, disposedNow)

CreateMessage(parent, n, guid, disposedNow) ==
  SendMessageToClient(nodes[parent].guid, "__create__",
     Object(<<"type", "initializer", "guid">>,
            <<StringValue(TypeOf(guid)), InitializerOf(parent), StringValue(guid)>>),
     n, disposedNow)

\* Lines 106-107: {} under the node's own _guid.
DisposeMessage(n, guid, disposedNow) ==
  SendMessageToClient(guid, "__dispose__", Object(<<>>, <<>>), n, disposedNow)

DisposedSet(ns) == {n \in 1..Len(ns) : ns[n].disposed}

----------------------------------------------------------------------------
(* Dispatcher constructor.                                                  *)

NewNode(parent, guid, isScope, isSdk) ==
  [guid |-> guid, type |-> TypeOf(guid), parent |-> parent, isScope |-> isScope,
   isSdk |-> isSdk, disposed |-> FALSE, children |-> <<>>]

\* The parent's children map with the new node registered in it.
LinkChild(map, n) == Append(map, n)

\* A parent is a scope (the source's "Parent is always isScope"); the
\* constructor does not look at the parent's _disposed flag.
\* Lines 58-80 when both asserts pass.
Construct(limit, parent, guid, isScope, isSdk) ==
  /\ Len(nodes) < limit
  /\ parent \in Node
  /\ nodes[parent].isScope
  /\ guid \notin DOMAIN registry
  /\ ~MapHas(nodes[parent].children, guid)
  /\ LET n == Len(nodes) + 1 IN
     /\ registry' = RegistrySet(registry, guid, n)
     /\ nodes' = Append([nodes EXCEPT ![parent].children = LinkChild(@, n)],
                        NewNode(parent, guid, isScope, isSdk))
     /\ outbox' = Append(outbox,
            CreateMessage(parent, n, guid, DisposedSet(nodes)))
     /\ lastOp' = [op |-> "construct", node |-> n, ok |-> TRUE, live |-> {}]
  /\ UNCHANGED callVars

\* Lines 58-80 when an assert throws: the one at line 66 before anything is
\* changed, the one at line 69 after the registry was written.
ConstructFailsAfterSet(limit, parent, guid, isScope, isSdk) ==
  /\ Len(nodes) < limit
  /\ parent \in Node
  /\ nodes[parent].isScope
  /\ guid \in DOMAIN registry \/ MapHas(nodes[parent].children, guid)
  /\ registry' = RegistrySet(registry, guid, Len(nodes) + 1)
  /\ nodes' = Append(nodes, NewNode(parent, guid, isScope, isSdk))
  /\ lastOp' = [op |-> "construct", node |-> NoNode, ok |-> FALSE, live |-> {}]
  /\ UNCHANGED outbox
  /\ UNCHANGED callVars

ConstructFails(limit, parent, guid, isScope, isSdk) ==
  /\ Len(nodes) < limit
  /\ parent \in Node
  /\ nodes[parent].isScope
  /\ guid \in DOMAIN registry \/ MapHas(nodes[parent].children, guid)
  /\ LET n == Len(nodes) + 1 IN
     IF guid \in DOMAIN registry
     THEN /\ lastOp' = [op |-> "construct", node |-> NoNode, ok |-> FALSE, live |-> {}]
          /\ UNCHANGED <<nodes, registry, outbox>>
     ELSE /\ registry' = RegistrySet(registry, guid, n)
          /\ nodes' = Append(nodes, NewNode(parent, guid, isScope, isSdk))
          /\ lastOp' = [op |-> "construct", node |-> n, ok |-> FALSE, live |-> {}]
          /\ UNCHANGED outbox
  /\ UNCHANGED callVars

----------------------------------------------------------------------------
(* Dispatcher._dispose, on a state st = [nodes, registry, outbox, ok].      *)
(* ok = FALSE: an assert threw and the exception is propagating.            *)

RECURSIVE DisposeNode(_, _)
RECURSIVE DisposeAll(_, _)

\* Lines 96-99: unlink from the parent's map and from the connection's.
UnlinkKeepRegistry(st, n) ==
  LET p == st.nodes[n].parent
      g == st.nodes[n].guid
  IN [st EXCEPT !.nodes = IF p = NoNode THEN @
                          ELSE [@ EXCEPT ![p].children =
                                  SelectSeq(@, LAMBDA c : st.nodes[c].guid # g)]]

Unlink(st, n) ==
  LET p == st.nodes[n].parent
      g == st.nodes[n].guid
  IN [st EXCEPT !.nodes = IF p = NoNode THEN @
                          ELSE [@ EXCEPT ![p].children =
                                  SelectSeq(@, LAMBDA c : st.nodes[c].guid # g)],
                !.registry = RegistryDelete(@, g)]

\* Lines 106-107: only a scope announces its teardown.
Teardown(st, n) ==
  IF st.nodes[n].isScope
  THEN [st EXCEPT !.outbox = Append(@, DisposeMessage(n, st.nodes[n].guid, DisposedSet(st.nodes)))]
  ELSE st

\* Lines 101-104: the children, snapshotted, in insertion order.
ChildrenToDispose(st, n) == st.nodes[n].children

DisposeAll(st, kids) ==
  IF kids = <<>> THEN st
  ELSE DisposeAll(DisposeNode(st, Head(kids)), Tail(kids))

DisposeNode(st, n) ==
  IF ~st.ok THEN st
  ELSE IF st.nodes[n].disposed THEN [st EXCEPT !.ok = FALSE]
  ELSE LET marked == [st EXCEPT !.nodes[n].disposed = TRUE]
           unlinked == Unlink(marked, n)
           swept == DisposeAll(unlinked, ChildrenToDispose(unlinked, n))
       IN IF ~swept.ok THEN swept
          ELSE Teardown([swept EXCEPT !.nodes[n].children = <<>>], n)

\* Nodes whose parent chain passes through n.
RECURSIVE AncestorsIn(_, _)
AncestorsIn(ns, n) ==
  IF ns[n].parent = NoNode THEN {}
  ELSE {ns[n].parent} \cup AncestorsIn(ns, ns[n].parent)

Descendants(n) == {d \in Node : n \in AncestorsIn(nodes, d)}

\* _dispose() called on a node that is not disposed.
Dispose(n) ==
  /\ n \in Node
  /\ ~nodes[n].disposed
  /\ LET st == DisposeNode([nodes |-> nodes, registry |-> registry,
                            outbox |-> outbox, ok |-> TRUE], n)
     IN /\ nodes' = st.nodes
        /\ registry' = st.registry
        /\ outbox' = st.outbox
        /\ lastOp' = [op |-> "dispose", node |-> n, ok |-> st.ok,
                      live |-> {d \in Descendants(n) : ~nodes[d].disposed}]
  /\ UNCHANGED callVars

\* _dispose() called on a disposed node: the assert at line 93 throws.
DisposeFailsSilently(n) ==
  /\ n \in Node
  /\ nodes[n].disposed
  /\ lastOp' = [op |-> "dispose", node |-> n, ok |-> TRUE, live |-> {}]
  /\ UNCHANGED <<nodes, registry, outbox>>
  /\ UNCHANGED callVars

DisposeFails(n) ==
  /\ n \in Node
  /\ nodes[n].disposed
  /\ lastOp' = [op |-> "dispose", node |-> n, ok |-> FALSE, live |-> {}]
  /\ UNCHANGED <<nodes, registry, outbox>>
  /\ UNCHANGED callVars

----------------------------------------------------------------------------
(* Dispatcher._dispatchEvent.  underTest is what isUnderTest() returns.     *)

\* Events of the nodes themselves in the outbox.
Events == {i \in 1..Len(outbox) : outbox[i].kind = "event"
             /\ outbox[i].method \notin {"__create__", "__dispose__"}}

EventOp(underTest) == IF underTest THEN "eventUnderTest" ELSE "event"

\* Lines 82-90 without the test of _disposed.
DispatchEventAlways(limit, n, underTest, method, params) ==
  /\ n \in Node
  /\ Cardinality(Events) < limit
  /\ outbox' = Append(outbox,
        SendMessageToClient(nodes[n].guid, method, params, n, DisposedSet(nodes)))
  /\ lastOp' = [op |-> EventOp(underTest), node |-> n, ok |-> TRUE, live |-> {}]
  /\ UNCHANGED <<nodes, registry>>
  /\ UNCHANGED callVars

\* Lines 82-90.
DispatchEvent(limit, n, underTest, method, params) ==
  /\ n \in Node
  /\ nodes[n].disposed \/ Cardinality(Events) < limit
  /\ IF nodes[n].disposed
     THEN /\ lastOp' = [op |-> EventOp(underTest), node |-> n, ok |-> ~underTest, live |-> {}]
          /\ UNCHANGED outbox
     ELSE /\ outbox' = Append(outbox,
                SendMessageToClient(nodes[n].guid, method, params, n, DisposedSet(nodes)))
          /\ lastOp' = [op |-> EventOp(underTest), node |-> n, ok |-> TRUE, live |-> {}]
  /\ UNCHANGED <<nodes, registry>>
  /\ UNCHANGED callVars

----------------------------------------------------------------------------
(* State after `new DispatcherConnection()`: the Root is registered under   *)
(* "", wraps a plain {} object, and announces nothing.                      *)

Init ==
  /\ nodes = <<NewNode(NoNode, RootGuid, TRUE, FALSE)>>
  /\ registry = [g \in {RootGuid} |-> RootNode]
  /\ outbox = <<>>
  /\ lastOp = [op |-> "new", node |-> RootNode, ok |-> TRUE, live |-> {}]
  /\ msgs = <<>>
  /\ calls = <<>>
  /\ meta = <<>>
  /\ waitOperations = <<>>
  /\ hooks = <<>>
  /\ invoked = {}
  /\ clock = 1

----------------------------------------------------------------------------
(* Inbound messages {id, guid, method, params, metadata}.  The validators   *)
(* are external: `fault` says which of them rejects the message.  `info` is *)
(* params.info, the wait descriptor, or NoInfo when params carries none.    *)

WaitIds == {"w1"}
ApiNames == {"x"}
LogTexts == {"m1", "m2"}
ErrorTexts == {"timeout"}

NoInfo == [waitId |-> "", phase |-> "", text |-> ""]

WaitInfosOf(names, texts, errors) ==
  [waitId : WaitIds, phase : {"before"}, text : names]
    \cup [waitId : WaitIds, phase : {"log"}, text : texts]
    \cup [waitId : WaitIds, phase : {"after"}, text : errors]

WaitInfos == WaitInfosOf(ApiNames, LogTexts, ErrorTexts)

\* "click" stands for a method of the wrapped object's dispatcher, which may
\* throw; "missing" for a name the dispatcher has no function for.
Shape(method, fault, info) == [method |-> method, fault |-> fault, info |-> info]

Before1 == [waitId |-> "w1", phase |-> "before", text |-> "x"]
Log1 == [waitId |-> "w1", phase |-> "log", text |-> "m1"]
After1 == [waitId |-> "w1", phase |-> "after", text |-> "timeout"]

\* Messages of every shape for the object "a": the introspection call,
\* well-formed calls with and without a wait descriptor, and calls that fail
\* each of the checks.
MessageShapes ==
  { Shape("debugScopeState", "none", NoInfo), Shape("debugScopeState", "params", NoInfo),
    Shape("click", "none", NoInfo), Shape("click", "none", Before1),
    Shape("click", "none", Log1), Shape("click", "none", After1),
    Shape("click", "params", Before1), Shape("click", "metadata", After1),
    Shape("missing", "none", Log1) }

\* For the Root, whose object is not instrumentable.
RootShapes ==
  { Shape("click", "none", NoInfo), Shape("click", "none", Before1) }

Messages ==
  { [guid |-> "a", method |-> sh.method, fault |-> sh.fault, info |-> sh.info] :
      sh \in MessageShapes }
  \cup
  { [guid |-> RootGuid, method |-> sh.method, fault |-> sh.fault, info |-> sh.info] :
      sh \in RootShapes }

\* Well-formed calls of waitForEventInfo on the object "a".
WaitMessages ==
  { [guid |-> "a", method |-> "waitForEventInfo", fault |-> "none", info |-> i] :
      i \in WaitInfos }

\* params?.info?.waitId
HasWait(m) == m.info.waitId # ""

----------------------------------------------------------------------------
(* CallMetadata objects.  meta[i] is the object that message i allocated at *)
(* lines 201-212; `made` is FALSE while dispatch returned before them.      *)

NoMeta == [made |-> FALSE, apiName |-> "", log |-> <<>>, error |-> "",
           startTime |-> 0, endTime |-> 0]

NewMeta(t) == [made |-> TRUE, apiName |-> "", log |-> <<>>, error |-> "",
               startTime |-> t, endTime |-> 0]

\* What the instrumentation sink is handed: the hook, the message whose
\* dispatch called it, the record object and the record's fields just then.
HookCall(hook, by, rec, r, text) ==
  [hook |-> hook, by |-> by, rec |-> rec, apiName |-> r.apiName, log |-> r.log,
   error |-> r.error, endTime |-> r.endTime, text |-> text]

Reply(id, ok, body) ==
  [kind |-> "reply", id |-> id, guid |-> "", method |-> IF ok THEN "result" ELSE "error",
   body |-> body, node |-> NoNode, disposedAt |-> {}]

\* A text as its lines.  A line is `left` '=' characters, a text, `right`
\* '=' characters.
Line(left, text, right) == [left |-> left, text |-> text, right |-> right]

TextLine(text) == Line(0, text, 0)

\* Line 287: the note starts on a line of its own.
KLoggingNote ==
  <<TextLine("Note: use DEBUG=pw:api environment variable to capture Playwright logs.")>>

\* Lines 292-295.
Header == " logs "
HeaderTextLength == 6
HeaderLength == 60
LeftLength == (HeaderLength - HeaderTextLength) \div 2
RightLength == HeaderLength - HeaderTextLength - LeftLength

\* Lines 289-297: a ruled header, the log lines, a rule; all on new lines.
FormatLogRecordingNoFooter(log) ==
  IF log = <<>> THEN <<>>
  ELSE <<Line(LeftLength, Header, RightLength)>>
         \o [i \in 1..Len(log) |-> TextLine(log[i])]

FormatLogRecording(log) ==
  IF log = <<>> THEN <<>>
  ELSE <<Line(LeftLength, Header, RightLength)>>
         \o [i \in 1..Len(log) |-> TextLine(log[i])]
         \o <<Line(HeaderLength, "", 0)>>

\* Lines 241-242: the message of the error once rewritten, if it is.
ErrorMessage(text, log) ==
  IF log # <<>> THEN <<TextLine(text)>> \o FormatLogRecording(log) \o KLoggingNote
  ELSE <<TextLine(text)>>

\* serializeError(e)
ErrorBody(text, log) == [tag |-> "error", message |-> ErrorMessage(text, log)]

\* Line 237: the result goes through the substitution; `raw` is the value
\* the method returned and is not on the wire.
ResultBody(value) ==
  [tag |-> "value", value |-> ReplaceDispatchersWithGuids(value), raw |-> value]

\* Dispatcher._debugScopeState
DebugScopeStateFlat(n) == [_guid |-> nodes[n].guid, objects |-> <<>>]

RECURSIVE DebugScopeState(_)
RECURSIVE DebugScopeStates(_)
DebugScopeStates(kids) ==
  IF kids = <<>> THEN <<>>
  ELSE <<DebugScopeState(Head(kids))>> \o DebugScopeStates(Tail(kids))

DebugScopeState(n) ==
  [_guid |-> nodes[n].guid, objects |-> DebugScopeStates(nodes[n].children)]

SnapshotBody == [tag |-> "snapshot", tree |-> DebugScopeState(RootNode)]

\* One dispatch() call: where it is suspended, the dispatcher it resolved
\* (NoNode: none), the record its `callMetadata` variable refers to, and
\* whether its waitId was in _waitOperations when it was dispatched.
Call(pc, target, cm, pending) == [pc |-> pc, target |-> target, cm |-> cm, pending |-> pending]

----------------------------------------------------------------------------
(* The pieces of dispatch(), on a state                                     *)
(*   st = [meta, outbox, hooks, waitOperations, clock, cm, pc].             *)

\* this.onmessage({ id, result }) / this.onmessage({ id, error })
SendReply(st, id, ok, body) == [st EXCEPT !.outbox = Append(@, Reply(id, ok, body))]

\* Lines 190-198: the first check that throws decides the error.
ValidationErrorNoMethodCheck(m) ==
  IF m.fault = "params" THEN "validation:params"
  ELSE IF m.fault = "metadata" THEN "validation:metadata"
  ELSE ""

ValidationError(m) ==
  IF m.fault = "params" THEN "validation:params"
  ELSE IF m.fault = "metadata" THEN "validation:metadata"
  ELSE IF m.method = "missing" THEN "mismatching dispatcher"
  ELSE ""

\* Lines 225-231: the phases whose case ends in `return`.
EarlyReturnPhasesLogOnly == {"log"}

EarlyReturnPhases == {"log", "after"}

\* Line 227: originalMetadata.log.push(info.message)
LogPushFront(log, text) == <<text>> \o log

LogPush(log, text) == Append(log, text)

\* Lines 226 and 257: this._waitOperations.get(info.waitId)
OriginalMetadataOfAny(st, w) ==
  st.waitOperations[CHOOSE k \in DOMAIN st.waitOperations : TRUE]

OriginalMetadata(st, w) == st.waitOperations[w]

\* Lines 217-233: the switch of the try block.  outcome: "proceed" to line
\* 234, "return" from the try block, or "throw" (originalMetadata undefined).
TryWait(st, id, m) ==
  LET w == m.info.waitId IN
  IF m.info.phase = "before"
  THEN [st |-> [st EXCEPT !.meta[id].apiName = m.info.text,
                          !.waitOperations = RegistrySet(@, w, id)],
        outcome |-> "proceed"]
  ELSE IF m.info.phase = "log" /\ w \notin DOMAIN st.waitOperations
  THEN [st |-> st, outcome |-> "throw"]
  ELSE IF m.info.phase = "log"
  THEN LET o == OriginalMetadata(st, w)
           logged == [st.meta EXCEPT ![o].log = LogPush(@, m.info.text)]
       IN [st |-> [st EXCEPT !.meta = logged,
                             !.hooks = Append(@, HookCall("onCallLog", id, o, logged[o], m.info.text))],
           outcome |-> IF m.info.phase \in EarlyReturnPhases THEN "return" ELSE "proceed"]
  ELSE [st |-> st,
        outcome |-> IF m.info.phase \in EarlyReturnPhases THEN "return" ELSE "proceed"]

\* Lines 238-243: the catch block.
CatchSilently(st, id, text) == [st EXCEPT !.meta[st.cm].error = text]

Catch(st, id, text) ==
  LET log == st.meta[st.cm].log
  IN SendReply([st EXCEPT !.meta[st.cm].error = text], id, FALSE, ErrorBody(text, log))

\* Lines 251-255: the phases of the finally block that return before line 265.
SilentPhasesLogOnly == {"log"}

SilentPhases == {"before", "log"}

\* Lines 244-266: the finally block.
Finally(st, id, m, sdk) ==
  LET w == m.info.waitId
      t == st.clock
      stamped == [st EXCEPT !.meta[st.cm].endTime = t, !.clock = @ + 1]
      zeroed == IF m.info.phase = "before"
                THEN [stamped EXCEPT !.meta[st.cm].endTime = 0] ELSE stamped
      after(s) == [s EXCEPT !.hooks = Append(@, HookCall("onAfterCall", id, s.cm, s.meta[s.cm], "")),
                            !.pc = "done"]
  IN
  IF ~sdk THEN [stamped EXCEPT !.pc = "done"]
  ELSE IF HasWait(m) /\ m.info.phase \in SilentPhases
  THEN [zeroed EXCEPT !.pc = "done"]
  ELSE IF HasWait(m) /\ m.info.phase = "after"
  THEN IF w \notin DOMAIN stamped.waitOperations
       THEN \* originalMetadata is undefined: the TypeError leaves dispatch()
            [stamped EXCEPT !.pc = "failed"]
       ELSE LET o == OriginalMetadata(stamped, w)
            IN after([stamped EXCEPT !.meta[o].endTime = t,
                                     !.meta[o].error = m.info.text,
                                     !.waitOperations = RegistryDelete(@, w),
                                     !.cm = o])
  ELSE after(zeroed)

Commit(st, id) ==
  /\ meta' = st.meta
  /\ outbox' = st.outbox
  /\ hooks' = st.hooks
  /\ waitOperations' = st.waitOperations
  /\ clock' = st.clock
  /\ calls' = [calls EXCEPT ![id].pc = st.pc, ![id].cm = st.cm]

----------------------------------------------------------------------------
(* dispatch(), from line 176 to its first await: line 234 (onBeforeCall),   *)
(* line 236 (the method), or, when the try block returns or throws, the     *)
(* catch and finally blocks as well.                                        *)

Dispatch(limit, m) ==
  /\ Len(msgs) < limit
  /\ LET id == Len(msgs) + 1
         d == Lookup(m.guid)
         base == [meta |-> Append(meta, NoMeta), outbox |-> outbox, hooks |-> hooks,
                  waitOperations |-> waitOperations, clock |-> clock, cm |-> id,
                  pc |-> "done"]
         made == [base EXCEPT !.meta[id] = NewMeta(clock), !.clock = @ + 1]
         sdk == nodes[d].isSdk
         tried == IF HasWait(m) THEN TryWait(made, id, m)
                  ELSE [st |-> made, outcome |-> "proceed"]
         st == IF d = NoNode
                 THEN SendReply(base, id, FALSE, ErrorBody("closed", <<>>))
               ELSE IF m.method = "debugScopeState"
                 THEN SendReply(base, id, TRUE, SnapshotBody)
               ELSE IF ValidationError(m) # ""
                 THEN SendReply(base, id, FALSE, ErrorBody(ValidationError(m), <<>>))
               ELSE IF ~sdk
                 THEN [made EXCEPT !.pc = "method"]
               ELSE IF tried.outcome = "proceed"
                 THEN [tried.st EXCEPT
                         !.hooks = Append(@, HookCall("onBeforeCall", id, id, tried.st.meta[id], "")),
                         !.pc = "onBeforeCall"]
               ELSE IF tried.outcome = "return"
                 THEN Finally(tried.st, id, m, sdk)
               ELSE Finally(Catch(tried.st, id, "TypeError"), id, m, sdk)
     IN /\ msgs' = Append(msgs, m)
        /\ calls' = Append(calls, Call(st.pc, d, st.cm,
                                       HasWait(m) /\ m.info.waitId \in DOMAIN waitOperations))
        /\ meta' = st.meta
        /\ outbox' = st.outbox
        /\ hooks' = st.hooks
        /\ waitOperations' = st.waitOperations
        /\ clock' = st.clock
        /\ invoked' = IF st.pc = "method" THEN invoked \cup {id} ELSE invoked
  /\ UNCHANGED <<nodes, registry, lastOp>>

\* Line 234 resumes: onBeforeCall settled, line 236 invokes the method.
OnBeforeCallReturns(id) ==
  /\ id \in 1..Len(calls)
  /\ calls[id].pc = "onBeforeCall"
  /\ calls' = [calls EXCEPT ![id].pc = "method"]
  /\ invoked' = invoked \cup {id}
  /\ UNCHANGED <<treeVars, msgs, meta, waitOperations, hooks, clock>>

\* Lines 237-266: the method settled; reply or catch, then the finally
\* block.  The await of onAfterCall at line 265 is the last thing dispatch()
\* does, so the call is done once the hook has been called.
\* Dispatcher.waitForEventInfo (lines 117-119) has an empty body: no throw.
MethodSettlesUnlessDisposed(id, throws) ==
  /\ id \in 1..Len(calls)
  /\ calls[id].pc = "method"
  /\ ~nodes[calls[id].target].disposed
  /\ throws => msgs[id].method # "waitForEventInfo"
  /\ LET m == msgs[id]
         sdk == nodes[calls[id].target].isSdk
         st == [meta |-> meta, outbox |-> outbox, hooks |-> hooks,
                waitOperations |-> waitOperations, clock |-> clock,
                cm |-> calls[id].cm, pc |-> "method"]
         settled == IF throws THEN Catch(st, id, "boom")
                    ELSE SendReply(st, id, TRUE, ResultBody(Primitive("ok")))
     IN Commit(Finally(settled, id, m, sdk), id)
  /\ UNCHANGED <<nodes, registry, lastOp, msgs, invoked>>

MethodSettlesWith(id, throws, result) ==
  /\ id \in 1..Len(calls)
  /\ calls[id].pc = "method"
  /\ throws => msgs[id].method # "waitForEventInfo"
  /\ LET m == msgs[id]
         sdk == nodes[calls[id].target].isSdk
         st == [meta |-> meta, outbox |-> outbox, hooks |-> hooks,
                waitOperations |-> waitOperations, clock |-> clock,
                cm |-> calls[id].cm, pc |-> "method"]
         settled == IF throws THEN Catch(st, id, "boom")
                    ELSE SendReply(st, id, TRUE, ResultBody(result))
     IN Commit(Finally(settled, id, m, sdk), id)
  /\ UNCHANGED <<nodes, registry, lastOp, msgs, invoked>>

\* The method throws, or returns a plain value.
MethodSettles(id, throws) == MethodSettlesWith(id, throws, Primitive("ok"))

----------------------------------------------------------------------------
(* The tree alone: constructions and disposals in any order, with any       *)
(* scope as the parent and any identifier.                                  *)

ConstructStep == \E p \in Node, g \in Guids, sc \in BOOLEAN : Construct(MaxNodes, p, g, sc, FALSE)

ConstructFailsStep == \E p \in Node, g \in Guids, sc \in BOOLEAN : ConstructFails(MaxNodes, p, g, sc, FALSE)

DisposeStep == \E n \in Node : Dispose(n)

DisposeFailsStep == \E n \in Node : DisposeFails(n)

NextTree == ConstructStep \/ ConstructFailsStep \/ DisposeStep \/ DisposeFailsStep

SpecTree == Init /\ [][NextTree]_vars

(* Messages of every shape, dispatched while the instrumentable object "a"  *)
(* comes and goes under the Root.                                           *)

SdkConstructStep == Construct(MaxConnNodes, RootNode, "a", FALSE, TRUE)

ConnDisposeStep == \E n \in Node \ {RootNode} : Dispose(n)

DispatchStep == \E m \in Messages : Dispatch(MaxMsgs, m)

OnBeforeCallStep == \E id \in 1..Len(calls) : OnBeforeCallReturns(id)

MethodReturnsStep == \E id \in 1..Len(calls) : MethodSettles(id, FALSE)

MethodThrowsStep == \E id \in 1..Len(calls) : MethodSettles(id, TRUE)

Next ==
  \/ SdkConstructStep
  \/ ConnDisposeStep
  \/ DispatchStep
  \/ OnBeforeCallStep
  \/ MethodReturnsStep
  \/ MethodThrowsStep

Spec == Init /\ [][Next]_vars

(* Wait operations: well-formed waitForEventInfo messages for the           *)
(* instrumentable object "a".                                               *)

WaitDispatchStep == \E m \in WaitMessages : Dispatch(MaxWaitMsgs, m)

NextWait ==
  \/ SdkConstructStep
  \/ WaitDispatchStep
  \/ OnBeforeCallStep
  \/ MethodReturnsStep

SpecWait == Init /\ [][NextWait]_vars

(* Two wait operations with wait_ids of their own, and ordinary calls, on   *)
(* the object "a"; each operation's messages come in the order before,      *)
(* log*, after.                                                             *)

Wait(waitId, phase, text) ==
  [guid |-> "a", method |-> "waitForEventInfo", fault |-> "none",
   info |-> [waitId |-> waitId, phase |-> phase, text |-> text]]

InterleavedMessages ==
  { Wait("w1", "before", "x"), Wait("w1", "log", "m1"), Wait("w1", "after", "timeout"),
    Wait("w2", "before", "y"), Wait("w2", "log", "n1"), Wait("w2", "after", "crash"),
    [guid |-> "a", method |-> "click", fault |-> "none", info |-> NoInfo] }

\* The sender keeps to the protocol: one `before` per wait_id, and `log`
\* and `after` only while the operation is open.
InProtocolOrder(m) ==
  \/ /\ ~HasWait(m)
     /\ Cardinality({i \in 1..Len(msgs) : ~HasWait(msgs[i])}) < MaxOrdinaryCalls
  \/ /\ m.info.phase = "before"
     /\ ~\E i \in 1..Len(msgs) : msgs[i].info.waitId = m.info.waitId
  \/ /\ m.info.phase \in {"log", "after"}
     /\ \E b \in 1..Len(msgs) :
          /\ msgs[b].info.waitId = m.info.waitId /\ msgs[b].info.phase = "before"
          /\ ~\E a \in 1..Len(msgs) :
               msgs[a].info.waitId = m.info.waitId /\ msgs[a].info.phase = "after"

InterleavedDispatchStep ==
  \E m \in InterleavedMessages : InProtocolOrder(m) /\ Dispatch(MaxInterleavedMsgs, m)

NextInterleaved ==
  \/ SdkConstructStep
  \/ InterleavedDispatchStep
  \/ OnBeforeCallStep
  \/ MethodReturnsStep

SpecInterleaved == Init /\ [][NextInterleaved]_vars

(* Payloads: events and call results that carry nested values, some of     *)
(* them dispatchers.                                                        *)

Leaves ==
  {Falsy("null"), Primitive("s"), Array(<<>>), Object(<<>>, <<>>)}
    \cup {DispatcherRef(n) : n \in Node}

\* The payloads made of exactly k values.
RECURSIVE PayloadsOfSize(_)
PayloadsOfSize(k) ==
  IF k = 1 THEN Leaves
  ELSE {Array(<<x>>) : x \in PayloadsOfSize(k - 1)}
         \cup {Object(<<"k">>, <<x>>) : x \in PayloadsOfSize(k - 1)}
         \cup UNION { {Array(<<x, y>>) : x \in PayloadsOfSize(i), y \in PayloadsOfSize(k - 1 - i)}
                        \cup {Object(<<"k", "l">>, <<x, y>>) :
                                 x \in PayloadsOfSize(i), y \in PayloadsOfSize(k - 1 - i)} :
                      i \in 1..(k - 2) }

PayloadsUpTo(k) == UNION {PayloadsOfSize(j) : j \in 1..k}

RECURSIVE Size(_)
RECURSIVE SizeAll(_)
SizeAll(items) == IF items = <<>> THEN 0 ELSE Size(Head(items)) + SizeAll(Tail(items))

Size(payload) == 1 + SizeAll(payload.items)

\* Positions in the outbox of the nodes' own events and of the results.
Carriers ==
  {i \in 1..Len(outbox) :
     \/ outbox[i].kind = "event" /\ outbox[i].method \notin {"__create__", "__dispose__"}
     \/ outbox[i].kind = "reply" /\ outbox[i].method = "result"}

RawOf(i) == IF outbox[i].kind = "event" THEN outbox[i].raw ELSE outbox[i].body.raw

RECURSIVE SizeOfCarriers(_)
SizeOfCarriers(is) ==
  IF is = {} THEN 0
  ELSE LET i == CHOOSE x \in is : TRUE IN Size(RawOf(i)) + SizeOfCarriers(is \ {i})

PayloadBudget == MaxPayloadSize - SizeOfCarriers(Carriers)

PayloadMessages == { [guid |-> RootGuid, method |-> "click", fault |-> "none", info |-> NoInfo] }

PayloadDispatchStep == \E m \in PayloadMessages : Dispatch(MaxLifeMsgs, m)

PayloadEventStep ==
  \E payload \in PayloadsUpTo(PayloadBudget) :
     DispatchEvent(MaxPayloadSize, RootNode, FALSE, "ev", payload)

PayloadResultStep ==
  \E id \in 1..Len(calls), payload \in PayloadsUpTo(PayloadBudget) :
     MethodSettlesWith(id, FALSE, payload)

NextPayload ==
  \/ SdkConstructStep
  \/ PayloadDispatchStep
  \/ PayloadEventStep
  \/ PayloadResultStep

SpecPayload == Init /\ [][NextPayload]_vars

(* Calls of a method of "a" that throws, made as the `before` message of a  *)
(* wait operation or plainly, and `log` messages.                           *)

ThrowMessages ==
  { [guid |-> "a", method |-> "click", fault |-> "none", info |-> i] :
      i \in {NoInfo, Before1, Log1, [waitId |-> "w1", phase |-> "log", text |-> "m2"]} }

ThrowDispatchStep == \E m \in ThrowMessages : Dispatch(MaxThrowMsgs, m)

NextThrow ==
  \/ SdkConstructStep
  \/ ThrowDispatchStep
  \/ OnBeforeCallStep
  \/ MethodReturnsStep
  \/ MethodThrowsStep

SpecThrow == Init /\ [][NextThrow]_vars

(* Calls and events of an instrumentable object "a", scope or not, that is  *)
(* constructed under the Root and disposed at any moment.                   *)

LifeMessages == { [guid |-> "a", method |-> "click", fault |-> "none", info |-> NoInfo] }

EventParams(n) == Object(<<"source">>, <<DispatcherRef(n)>>)

LifeConstructStep == \E sc \in BOOLEAN : Construct(MaxConnNodes, RootNode, "a", sc, TRUE)

LifeDispatchStep == \E m \in LifeMessages : Dispatch(MaxLifeMsgs, m)

EmitEventStep ==
  \E n \in Node \ {RootNode}, t \in BOOLEAN : DispatchEvent(MaxEvents, n, t, "ev", EventParams(n))

NextLife ==
  \/ LifeConstructStep
  \/ ConnDisposeStep
  \/ LifeDispatchStep
  \/ OnBeforeCallStep
  \/ MethodReturnsStep
  \/ MethodThrowsStep
  \/ EmitEventStep

SpecLife == Init /\ [][NextLife]_vars

----------------------------------------------------------------------------
(* Properties of the tree.                                                  *)

Live(n) == n \in Node /\ ~nodes[n].disposed

\* The closest scope strictly above n, or NoNode.
RECURSIVE NearestAncestorScope(_)
NearestAncestorScope(n) ==
  LET p == nodes[n].parent IN
  IF p = NoNode THEN NoNode
  ELSE IF nodes[p].isScope THEN p
  ELSE NearestAncestorScope(p)

\* Positions in the outbox of the lifecycle events sent by node n.
CreatedAt(n) == {i \in 1..Len(outbox) : outbox[i].kind = "event"
                   /\ outbox[i].method = "__create__" /\ outbox[i].node = n}

TeardownsOf(n) == {i \in 1..Len(outbox) : outbox[i].kind = "event"
                     /\ outbox[i].method = "__dispose__" /\ outbox[i].node = n}

\* C5: every live node other than the root has a live parent, after any
\* sequence of constructions and disposals (a construction under a disposed
\* parent included).
LiveParentInv ==
  \A n \in Node : (Live(n) /\ n # RootNode) => Live(nodes[n].parent)

LookupFollowsLifecycle ==
  /\ (lastOp.op = "construct" /\ lastOp.ok) =>
        Lookup(nodes[lastOp.node].guid) = lastOp.node
  /\ (lastOp.op = "dispose" /\ lastOp.ok) =>
        \A d \in {lastOp.node} \cup lastOp.live : Lookup(nodes[d].guid) = NoNode

\* C8: when a scope S announces its teardown, every descendant of S that
\* existed by then is marked disposed and every such descendant scope has
\* announced its own teardown earlier; a disposed scope announces its
\* teardown exactly once, and a node that is not a scope never does.
TeardownOrder ==
  /\ \A s \in Node : \A i \in TeardownsOf(s) :
       \A d \in Descendants(s) :
         (\E c \in CreatedAt(d) : c < i) =>
            /\ d \in outbox[i].disposedAt
            /\ nodes[d].isScope => \E j \in TeardownsOf(d) : j < i
  /\ \A n \in Node :
       Cardinality(TeardownsOf(n)) = IF nodes[n].isScope /\ nodes[n].disposed THEN 1 ELSE 0

----------------------------------------------------------------------------
(* Properties of dispatch().                                                *)

Msg == 1..Len(msgs)

RepliesTo(id) == {i \in 1..Len(outbox) : outbox[i].kind = "reply" /\ outbox[i].id = id}

HooksBy(id) == {h \in 1..Len(hooks) : hooks[h].by = id}

Settled(id) == calls[id].pc \in {"done", "failed"}

\* Passes both validators and names a function of the dispatcher.
WellFormed(m) == m.fault = "none" /\ m.method # "missing"

\* Message id is a wait-phase message for an instrumentable object: it
\* reached the wait switch of dispatch().
WaitMsg(id, phase) ==
  /\ calls[id].target # NoNode
  /\ nodes[calls[id].target].isSdk
  /\ msgs[id].method # "debugScopeState"
  /\ WellFormed(msgs[id])
  /\ HasWait(msgs[id])
  /\ msgs[id].info.phase = phase

AnyWaitMsg(id) == \E ph \in {"before", "log", "after"} : WaitMsg(id, ph)

\* C1 as stated: the `before` and `log` messages of a wait operation get no
\* reply, its `after` message gets exactly one.
WaitRepliesClaimed ==
  \A id \in Msg :
    /\ WaitMsg(id, "before") => RepliesTo(id) = {}
    /\ (WaitMsg(id, "log") /\ calls[id].pending) => RepliesTo(id) = {}
    /\ (WaitMsg(id, "after") /\ calls[id].pending /\ calls[id].pc = "done") =>
         Cardinality(RepliesTo(id)) = 1

\* C1, amended: the `before` message gets exactly one reply, with its own
\* id, when its dispatch ends; a `log` message for a pending wait_id and
\* every `after` message get none.
WaitReplies ==
  \A id \in Msg :
    /\ WaitMsg(id, "before") =>
         Cardinality(RepliesTo(id)) = IF calls[id].pc = "done" THEN 1 ELSE 0
    /\ (WaitMsg(id, "log") /\ calls[id].pending) => RepliesTo(id) = {}
    /\ WaitMsg(id, "after") => RepliesTo(id) = {}

\* A whole wait operation was dispatched: before, log, after, all ended.
WaitRepliesWitness ==
  \E b, l, a \in Msg :
    /\ b < l /\ l < a
    /\ WaitMsg(b, "before") /\ calls[b].pc = "done" /\ RepliesTo(b) # {}
    /\ WaitMsg(l, "log") /\ calls[l].pending
    /\ WaitMsg(a, "after") /\ calls[a].pending /\ calls[a].pc = "done"

\* C2: a message that is not a wait-phase message for an instrumentable
\* object gets exactly one reply with its own id when its dispatch ends,
\* none before, and its dispatch never fails, whatever was dispatched
\* earlier.
OneReplyPerCall ==
  \A id \in Msg :
    ~AnyWaitMsg(id) =>
      /\ calls[id].pc # "failed"
      /\ Cardinality(RepliesTo(id)) = IF calls[id].pc = "done" THEN 1 ELSE 0

\* An error reply to one message, then a success reply to a later message
\* that carried a wait descriptor for the Root, which is not instrumentable.
OneReplyPerCallWitness ==
  \E i, j \in Msg :
    /\ i < j
    /\ \E r \in RepliesTo(i) : outbox[r].method = "error" /\ outbox[r].body.message = <<TextLine("boom")>>
    /\ calls[j].target = RootNode /\ HasWait(msgs[j])
    /\ \E r \in RepliesTo(j) : outbox[r].method = "result"

\* C3: a `log` or `after` message for an instrumentable object whose
\* wait_id is not pending makes dispatch fail, and no reply is sent.
UnknownWaitIsFatal ==
  \A id \in Msg :
    ((WaitMsg(id, "log") \/ WaitMsg(id, "after")) /\ ~calls[id].pending) =>
       calls[id].pc = "failed" /\ RepliesTo(id) = {}

----------------------------------------------------------------------------
(* The wait operation that an `after` message closes, read off the          *)
(* messages alone.                                                          *)

SameWait(i, j) == msgs[i].info.waitId = msgs[j].info.waitId

\* The `before` messages of a's wait_id dispatched ahead of a.
BeforesAhead(a) == {b \in Msg : b < a /\ WaitMsg(b, "before") /\ SameWait(b, a)}

LastBefore(a) == CHOOSE b \in BeforesAhead(a) : \A c \in BeforesAhead(a) : c <= b

\* a closes an operation: a `before` precedes it with no `after` between.
Closes(a) ==
  /\ WaitMsg(a, "after")
  /\ BeforesAhead(a) # {}
  /\ ~\E c \in Msg : LastBefore(a) < c /\ c < a /\ WaitMsg(c, "after") /\ SameWait(c, a)

\* The texts of the `log` messages of the same wait_id between b and a.
RECURSIVE LogsFrom(_, _, _)
LogsFrom(b, a, j) ==
  IF j >= a THEN <<>>
  ELSE IF WaitMsg(j, "log") /\ SameWait(j, a)
  THEN <<msgs[j].info.text>> \o LogsFrom(b, a, j + 1)
  ELSE LogsFrom(b, a, j + 1)

AfterCallsOf(rec) == {h \in 1..Len(hooks) : hooks[h].hook = "onAfterCall" /\ hooks[h].rec = rec}

\* C4: after before(x), log m1..mk, after for a wait_id, onAfterCall has
\* been called exactly once with the operation's record, by the `after`
\* message, with operation name x and log <<m1..mk>>; the record of an
\* operation not yet closed has not been reported; a wait_id is pending
\* exactly while its last before/after message is a `before`.
WaitOperationReported ==
  /\ \A a \in Msg : Closes(a) =>
       LET b == LastBefore(a) IN
       /\ Cardinality(AfterCallsOf(b)) = 1
       /\ \A h \in AfterCallsOf(b) :
            /\ hooks[h].by = a
            /\ hooks[h].apiName = msgs[b].info.text
            /\ hooks[h].log = LogsFrom(b, a, b + 1)
  /\ \A b \in Msg : WaitMsg(b, "before") =>
       \A h \in AfterCallsOf(b) : Closes(hooks[h].by) /\ LastBefore(hooks[h].by) = b
  /\ \A w \in WaitIds :
       w \in DOMAIN waitOperations <=>
         \E b \in Msg :
           /\ WaitMsg(b, "before") /\ msgs[b].info.waitId = w
           /\ ~\E c \in Msg : c > b /\ msgs[c].info.waitId = w
                               /\ (WaitMsg(c, "before") \/ WaitMsg(c, "after"))
       \* the last one being a `before`

\* before, log m1, log m2, after: the record reported carries <<m1, m2>>.
WaitOperationReportedWitness ==
  \E a \in Msg :
    /\ Closes(a)
    /\ \E h \in AfterCallsOf(LastBefore(a)) :
         hooks[h].log = <<"m1", "m2">> /\ hooks[h].apiName = "x"
    /\ waitOperations = <<>>

----------------------------------------------------------------------------
(* Messages that dispatch() answers before it builds a CallMetadata.        *)

\* Message id named an unknown target, failed a validator, or named a
\* method its target has no function for.
FailedEarlyOf(m, target) ==
  \/ target = NoNode
  \/ m.method # "debugScopeState" /\ ~WellFormed(m)

FailedEarly(id) == FailedEarlyOf(msgs[id], calls[id].target)

\* The step dispatched one more message.
Dispatched == Len(msgs') = Len(msgs) + 1

\* C9: such a message never has its method invoked nor any hook called, and
\* its one effect is an error reply carrying its id.
FailedEarlyLeavesNoTrace ==
  \A id \in Msg :
    FailedEarly(id) =>
      /\ id \notin invoked
      /\ HooksBy(id) = {}
      /\ ~meta[id].made
      /\ calls[id].pc = "done"
      /\ Cardinality(RepliesTo(id)) = 1
      /\ \A r \in RepliesTo(id) : outbox[r].method = "error"

\* C9: dispatching it leaves the pending-wait table, the registry, the
\* records and the hooks as they were and appends the error reply.
FailedEarlyChangesNothing ==
  (Dispatched /\ FailedEarlyOf(msgs'[Len(msgs')], calls'[Len(msgs')].target)) =>
     /\ waitOperations' = waitOperations
     /\ registry' = registry
     /\ nodes' = nodes
     /\ hooks' = hooks
     /\ invoked' = invoked
     /\ SubSeq(meta', 1, Len(meta)) = meta
     /\ Len(outbox') = Len(outbox) + 1
     /\ SubSeq(outbox', 1, Len(outbox)) = outbox
     /\ outbox'[Len(outbox')].kind = "reply"
     /\ outbox'[Len(outbox')].id = Len(msgs')
     /\ outbox'[Len(outbox')].method = "error"

FailedEarlyIsInert == []FailedEarlyLeavesNoTrace /\ [][FailedEarlyChangesNothing]_vars

\* A message failed a check of lines 190-198 while a wait operation was
\* pending and a call was suspended.
FailedEarlyWitness ==
  /\ waitOperations # <<>>
  /\ \E id \in Msg :
       /\ FailedEarly(id) /\ calls[id].target # NoNode
       /\ msgs[id].method = "missing" /\ HasWait(msgs[id])
       /\ \E b \in Msg : b < id /\ WaitMsg(b, "before") /\ ~Settled(b)

----------------------------------------------------------------------------
(* The introspection call.                                                  *)

\* The live tree below n, read off the parent links: {_guid, objects}.
LiveChildren(n) == {c \in Node : nodes[c].parent = n /\ ~nodes[c].disposed}

RECURSIVE LiveTree(_)
RECURSIVE LiveTrees(_)
LiveTrees(cs) ==
  IF cs = {} THEN <<>>
  ELSE LET c == CHOOSE x \in cs : \A y \in cs : x <= y
       IN <<LiveTree(c)>> \o LiveTrees(cs \ {c})

LiveTree(n) == [_guid |-> nodes[n].guid, objects |-> LiveTrees(LiveChildren(n))]

Introspection(id) == msgs[id].method = "debugScopeState"

\* C10 as stated: every debugScopeState message, whatever its target, is
\* answered with a snapshot, without hooks or an invocation.
IntrospectionAlwaysAnswered ==
  \A id \in Msg :
    Introspection(id) =>
      /\ Cardinality(RepliesTo(id)) = 1
      /\ \A r \in RepliesTo(id) : outbox[r].method = "result" /\ outbox[r].body.tag = "snapshot"
      /\ HooksBy(id) = {} /\ id \notin invoked

\* C10, amended: a debugScopeState message whose target is registered is
\* answered with a snapshot, one whose target is not registered with the
\* error reply of any such message; neither is validated, reaches a hook or
\* invokes a method.
IntrospectionAnswered ==
  \A id \in Msg :
    Introspection(id) =>
      /\ Cardinality(RepliesTo(id)) = 1
      /\ \A r \in RepliesTo(id) :
           IF calls[id].target # NoNode
           THEN outbox[r].method = "result" /\ outbox[r].body.tag = "snapshot"
           ELSE outbox[r].method = "error" /\ outbox[r].body.message = <<TextLine("closed")>>
      /\ HooksBy(id) = {} /\ id \notin invoked /\ ~meta[id].made
      /\ calls[id].pc = "done"

\* C10, amended: the snapshot is the live tree under the root at that time.
IntrospectionSnapshot ==
  (Dispatched /\ msgs'[Len(msgs')].method = "debugScopeState"
     /\ calls'[Len(msgs')].target # NoNode) =>
     /\ Len(outbox') = Len(outbox) + 1
     /\ outbox'[Len(outbox')].body.tree = LiveTree(RootNode)
     /\ UNCHANGED <<nodes, registry, waitOperations, hooks, invoked>>

IntrospectionIsAnswered == []IntrospectionAnswered /\ [][IntrospectionSnapshot]_vars

\* A debugScopeState message with params that fail validation was answered
\* with a snapshot that lists the object "a".
IntrospectionWitness ==
  \E id \in Msg :
    /\ Introspection(id) /\ msgs[id].fault = "params"
    /\ \E r \in RepliesTo(id) :
         outbox[r].method = "result" /\ outbox[r].body.tree.objects # <<>>

----------------------------------------------------------------------------
(* _dispose() on a node that is already disposed.                           *)

\* A step that was a _dispose() call on a node already marked disposed
\* ended in the assertion failure and left the registry, every children
\* map, every node and the outbox as they were.
SecondDisposeFails ==
  (lastOp'.op = "dispose" /\ lastOp'.node \in Node /\ nodes[lastOp'.node].disposed) =>
     /\ ~lastOp'.ok
     /\ UNCHANGED <<nodes, registry, outbox>>

\* _disposed never goes back to false.
DisposedMonotonic == \A n \in Node : nodes[n].disposed => nodes'[n].disposed

\* C11: a second _dispose() on a disposed node always fails and changes
\* nothing (registry, children maps, outbound messages), and the disposed
\* flag of every node, once true, stays true.
DisposeTwiceFails == [][SecondDisposeFails /\ DisposedMonotonic]_vars

\* A scope with a child was disposed, another node was constructed since,
\* and a second _dispose() on a disposed node has just failed.
DisposeTwiceWitness ==
  /\ lastOp.op = "dispose" /\ ~lastOp.ok
  /\ nodes[lastOp.node].disposed
  /\ \E n \in Node : Live(n) /\ n # RootNode
  /\ \E i \in 1..Len(outbox) : outbox[i].method = "__dispose__"

----------------------------------------------------------------------------
(* Events.                                                                  *)

\* The step was a _dispatchEvent call: no other step leaves the nodes, the
\* registry and all of dispatch()'s state as they were.
EventCallTaken ==
  /\ lastOp'.op \in {"event", "eventUnderTest"}
  /\ UNCHANGED <<nodes, registry, callVars>>

\* C12: _dispatchEvent on a disposed node delivers nothing: outside tests
\* the call returns and all state is as it was, under test it throws; on a
\* live node it delivers exactly one event, under that node's _guid.
EventOfDisposedDropped ==
  EventCallTaken =>
    LET n == lastOp'.node IN
    IF nodes[n].disposed
    THEN /\ outbox' = outbox
         /\ lastOp'.ok = (lastOp'.op = "event")
    ELSE /\ lastOp'.ok
         /\ Len(outbox') = Len(outbox) + 1
         /\ SubSeq(outbox', 1, Len(outbox)) = outbox
         /\ outbox'[Len(outbox')].kind = "event"
         /\ outbox'[Len(outbox')].guid = nodes[n].guid
         /\ outbox'[Len(outbox')].node = n
         /\ outbox'[Len(outbox')].method = "ev"

EventsFollowLifecycle == [][EventOfDisposedDropped]_vars

\* The object "a" delivered an event, was disposed, and a later
\* _dispatchEvent on it under test has just thrown.
EventsFollowLifecycleWitness ==
  /\ lastOp.op = "eventUnderTest" /\ ~lastOp.ok
  /\ nodes[lastOp.node].disposed
  /\ \E i \in Events : outbox[i].node = lastOp.node

----------------------------------------------------------------------------
(* Disposal of the target of a call that is in flight.                      *)

\* Message id was handed on to its target (it passed lines 178-198 and is
\* not a wait-phase message) and the target has been disposed since.
TargetDisposed(id) ==
  /\ calls[id].target # NoNode
  /\ nodes[calls[id].target].disposed
  /\ msgs[id].method # "debugScopeState"
  /\ WellFormed(msgs[id])
  /\ ~HasWait(msgs[id])

AfterCallsBy(id) == {h \in HooksBy(id) : hooks[h].hook = "onAfterCall"}

\* C13: a call whose target is disposed while the call is suspended in
\* onBeforeCall or in the method is not interrupted: it can resume from
\* either, it never fails, and when it ends its reply with the message's id
\* has been sent and onAfterCall has run once; and no event in the outbox
\* was sent by a node that was disposed at the time.
CallOutlivesTarget ==
  /\ \A id \in Msg :
       TargetDisposed(id) =>
         /\ calls[id].pc = "onBeforeCall" => ENABLED OnBeforeCallReturns(id)
         /\ calls[id].pc = "method" =>
              ENABLED MethodSettles(id, FALSE) /\ ENABLED MethodSettles(id, TRUE)
         /\ calls[id].pc # "failed"
         /\ calls[id].pc = "done" =>
              /\ Cardinality(RepliesTo(id)) = 1
              /\ nodes[calls[id].target].isSdk => Cardinality(AfterCallsBy(id)) = 1
  /\ \A i \in Events : outbox[i].node \notin outbox[i].disposedAt

\* The scope "a" announced its teardown while a call on it was suspended;
\* the call's reply was sent afterwards and its onAfterCall hook ran.
CallOutlivesTargetWitness ==
  \E id \in Msg :
    /\ TargetDisposed(id) /\ calls[id].pc = "done"
    /\ \E r \in RepliesTo(id) : \E t \in TeardownsOf(calls[id].target) : t < r
    /\ AfterCallsBy(id) # {}

----------------------------------------------------------------------------
(* Interleaved wait operations.                                             *)

\* The texts carried by the messages of wait_id w.
TextsOf(w) == {msgs[j].info.text : j \in {i \in Msg : msgs[i].info.waitId = w}}

Range(seq) == {seq[i] : i \in 1..Len(seq)}

\* C14: with wait operations of distinct wait_ids and ordinary calls
\* interleaved in any order, the record handed to onAfterCall for a wait_id
\* is the one its `before` message made, with that operation's name, the
\* texts of its own `log` messages in order and its own error text, and
\* with no text of a message of another wait_id; an ordinary call reports a
\* record of its own with an empty log.
WaitOperationsApart ==
  /\ \A h \in 1..Len(hooks) :
       hooks[h].hook = "onAfterCall" =>
         LET a == hooks[h].by IN
         IF WaitMsg(a, "after")
         THEN /\ Closes(a)
              /\ hooks[h].rec = LastBefore(a)
              /\ hooks[h].apiName = msgs[LastBefore(a)].info.text
              /\ hooks[h].log = LogsFrom(LastBefore(a), a, LastBefore(a) + 1)
              /\ hooks[h].error = msgs[a].info.text
              /\ \A w \in {"w1", "w2"} \ {msgs[a].info.waitId} :
                   /\ Range(hooks[h].log) \cap TextsOf(w) = {}
                   /\ hooks[h].error \notin TextsOf(w)
                   /\ hooks[h].apiName \notin TextsOf(w)
         ELSE /\ hooks[h].rec = a
              /\ hooks[h].log = <<>>
              /\ hooks[h].apiName = ""
  /\ \A a \in Msg :
       (WaitMsg(a, "after") /\ calls[a].pc = "done") =>
          \E h \in 1..Len(hooks) : hooks[h].hook = "onAfterCall" /\ hooks[h].by = a

\* Both operations were open at once, a `log` message of the second came
\* before the `after` of the first, and the first has been reported without
\* that line, which is in the second's record.
WaitOperationsApartWitness ==
  \E b1, b2, l2, a1 \in Msg :
    /\ b1 < b2 /\ b2 < l2 /\ l2 < a1
    /\ msgs[b1] = Wait("w1", "before", "x") /\ msgs[b2] = Wait("w2", "before", "y")
    /\ msgs[l2] = Wait("w2", "log", "n1")
    /\ msgs[a1] = Wait("w1", "after", "timeout")
    /\ \E h \in AfterCallsOf(b1) : hooks[h].log = <<>> /\ hooks[h].error = "timeout"
    /\ meta[b2].log = <<"n1">>

----------------------------------------------------------------------------
(* Identifier collisions.                                                   *)

\* No two nodes that are not disposed have the same _guid.
UniqueLiveGuids ==
  \A n1, n2 \in Node :
    (Live(n1) /\ Live(n2) /\ nodes[n1].guid = nodes[n2].guid) => n1 = n2

\* A construction either succeeds, with an identifier that was not in the
\* registry, or fails at line 66 with the registry, every node and children
\* map and the outbox as they were.
CollisionChangesNothing ==
  lastOp'.op = "construct" =>
    IF lastOp'.ok
    THEN /\ lastOp'.node = Len(nodes) + 1
         /\ nodes'[lastOp'.node].guid \notin DOMAIN registry
    ELSE UNCHANGED <<nodes, registry, outbox>>

\* C15: constructing a node with an identifier that is in the registry
\* fails before any change (registry, children maps, outbox: no __create__
\* is sent), and so no two live nodes ever share an identifier.
ConstructCollisionFails == []UniqueLiveGuids /\ [][CollisionChangesNothing]_vars

\* A construction has just failed while a node other than the Root was
\* registered and its __create__ was in the outbox.
ConstructCollisionWitness ==
  /\ lastOp.op = "construct" /\ ~lastOp.ok
  /\ Cardinality(DOMAIN registry) >= 2
  /\ outbox # <<>>

----------------------------------------------------------------------------
(* Creation notifications.                                                  *)

\* What a __create__ for node n carries after substitution.
CreateParams(n) ==
  Object(<<"type", "initializer", "guid">>,
         <<StringValue(nodes[n].type),
           ReplaceDispatchersWithGuids(InitializerOf(nodes[n].parent)),
           StringValue(nodes[n].guid)>>)

\* Positions of the messages sent under n's _guid on n's behalf: n's own
\* events and teardown, and the __create__ of each child of n.
SentUnder(n) ==
  {i \in 1..Len(outbox) :
     /\ outbox[i].kind = "event"
     /\ outbox[i].guid = nodes[n].guid
     /\ IF outbox[i].method = "__create__"
        THEN nodes[outbox[i].node].parent = n
        ELSE outbox[i].node = n}

\* C16: a node other than the Root has exactly one __create__, sent under
\* its parent's _guid and naming its type, initializer and guid; the Root
\* has none; and a node's __create__ comes before every other message sent
\* under that node's own _guid (its events, its teardown, its children's
\* __create__).
CreationAnnounced ==
  /\ CreatedAt(RootNode) = {}
  /\ \A n \in Node \ {RootNode} :
       /\ Cardinality(CreatedAt(n)) = 1
       /\ \A c \in CreatedAt(n) :
            /\ outbox[c].guid = nodes[nodes[n].parent].guid
            /\ outbox[c].params = CreateParams(n)
            /\ \A i \in SentUnder(n) : c < i

\* The scope "a" was announced under the Root's identifier, delivered an
\* event and then announced its teardown.
CreationAnnouncedWitness ==
  \E n \in Node \ {RootNode} :
    /\ nodes[n].parent = RootNode
    /\ \E c \in CreatedAt(n), e \in Events, t \in TeardownsOf(n) :
         /\ outbox[e].node = n
         /\ c < e /\ e < t
         /\ outbox[c].guid = RootGuid

----------------------------------------------------------------------------
(* Error replies of calls that throw.                                       *)

\* The step sent an error reply for a message that had its record made: the
\* method, or the wait switch, threw.
ThrowReplied ==
  /\ Len(outbox') = Len(outbox) + 1
  /\ outbox'[Len(outbox')].kind = "reply"
  /\ outbox'[Len(outbox')].method = "error"
  /\ meta'[outbox'[Len(outbox')].id].made

\* C17: when the call throws with log lines l1..ln in its record, n >= 1,
\* the reply's message is the exception's text, then the header rule, l1..ln
\* in order, the closing rule and the note, and the record's error is the
\* text alone; with an empty log the message is exactly the text.
ErrorCarriesLog ==
  ThrowReplied =>
    LET id == outbox'[Len(outbox')].id
        message == outbox'[Len(outbox')].body.message
        log == meta'[id].log
        n == Len(log)
    IN /\ meta'[id].error \in {"boom", "TypeError"}
       /\ message[1] = TextLine(meta'[id].error)
       /\ Len(message) = IF n = 0 THEN 1 ELSE n + 4
       /\ n > 0 =>
            /\ message[2] = Line(27, " logs ", 27)
            /\ \A i \in 1..n : message[i + 2] = TextLine(log[i])
            /\ message[n + 3] = Line(60, "", 0)
            /\ message[n + 4] = KLoggingNote[1]

ErrorRepliesCarryLog == [][ErrorCarriesLog]_vars

\* A call threw after two log lines: its reply lists m1, then m2.
ErrorRepliesCarryLogWitness ==
  \E r \in 1..Len(outbox) :
    /\ outbox[r].kind = "reply" /\ outbox[r].method = "error"
    /\ Len(outbox[r].body.message) = 6
    /\ outbox[r].body.message[3] = TextLine("m1")
    /\ outbox[r].body.message[4] = TextLine("m2")
    /\ meta[outbox[r].id].error = "boom"

----------------------------------------------------------------------------
(* Payload substitution.                                                    *)

\* out is payload with every dispatcher in it, at any depth of arrays and
\* objects, replaced by { guid } of that node, and nothing else changed.
RECURSIVE Substituted(_, _)
Substituted(payload, out) ==
  IF payload.t = "dispatcher"
  THEN /\ out.t = "object"
       /\ out.keys = <<"guid">>
       /\ Len(out.items) = 1
       /\ out.items[1].s = nodes[payload.n].guid
       /\ out.items[1].t \in {"primitive", "falsy"}
       /\ out.items[1].items = <<>>
  ELSE IF payload.t \in {"array", "object"}
  THEN /\ out.t = payload.t
       /\ out.keys = payload.keys
       /\ Len(out.items) = Len(payload.items)
       /\ \A i \in 1..Len(payload.items) : Substituted(payload.items[i], out.items[i])
  ELSE out = payload

\* Positions in the outbox of everything that goes through the
\* substitution: every event (lifecycle events included) and every result
\* of a method.
Substitutions ==
  {i \in 1..Len(outbox) :
     \/ outbox[i].kind = "event"
     \/ outbox[i].kind = "reply" /\ outbox[i].method = "result" /\ outbox[i].body.tag = "value"}

SentOf(i) == IF outbox[i].kind = "event" THEN outbox[i].params ELSE outbox[i].body.value

\* C18: every call result and every event payload is sent with each
\* dispatcher in it, at any depth inside arrays and objects, replaced by
\* the mapping that holds that node's identifier; lengths, order and keys
\* are kept and every other value, falsy ones included, is sent as it was;
\* substituting what was sent once more changes nothing.
PayloadsSubstituted ==
  \A i \in Substitutions :
    /\ Substituted(RawOf(i), SentOf(i))
    /\ ReplaceDispatchersWithGuids(SentOf(i)) = SentOf(i)

\* A result with the dispatcher of "a" inside an array inside an object
\* was sent: the array's one element is now the mapping that names "a".
PayloadsSubstitutedWitness ==
  \E i \in Substitutions :
    /\ outbox[i].kind = "reply"
    /\ RawOf(i) = Object(<<"k">>, <<Array(<<DispatcherRef(2)>>)>>)
    /\ SentOf(i) = Object(<<"k">>, <<Array(<<Object(<<"guid">>, <<Primitive("a")>>)>>)>>)

----------------------------------------------------------------------------
(* The end time of a reported wait record.                                  *)

\* Calls of onAfterCall made by `after` messages.
ReportsByAfter == {h \in 1..Len(hooks) : hooks[h].hook = "onAfterCall"
                     /\ WaitMsg(hooks[h].by, "after")}

\* C19: once an `after` message has stamped a wait record's endTime and
\* handed the record to onAfterCall, the record's endTime stays what it was
\* then, whatever is dispatched or resumes later (the `before` message of
\* the same wait_id, still suspended, included).
EndTimeStaysStamped ==
  \A h \in ReportsByAfter : meta[hooks[h].rec].endTime = hooks[h].endTime

----------------------------------------------------------------------------
(* The hooks of a wait operation.                                           *)

HookCallsOf(hook, rec) == {h \in 1..Len(hooks) : hooks[h].hook = hook /\ hooks[h].rec = rec}

HookCallsBy(hook, id) == {h \in 1..Len(hooks) : hooks[h].hook = hook /\ hooks[h].by = id}

\* C20: in a wait operation on an instrumentable object onBeforeCall is
\* called exactly once, by the `before` message, and onAfterCall exactly
\* once, by the `after` message, both with the record the `before` message
\* made and in that order; a `before` message never calls onAfterCall; a
\* `log` or `after` message never calls onBeforeCall and never has the
\* method invoked.
WaitHooksPaired ==
  /\ \A b \in Msg : WaitMsg(b, "before") =>
       /\ Cardinality(HookCallsOf("onBeforeCall", b)) = 1
       /\ HookCallsOf("onBeforeCall", b) = HookCallsBy("onBeforeCall", b)
       /\ HookCallsBy("onAfterCall", b) = {}
  /\ \A a \in Msg : Closes(a) =>
       LET b == LastBefore(a) IN
       /\ Cardinality(HookCallsOf("onAfterCall", b)) = 1
       /\ HookCallsOf("onAfterCall", b) = HookCallsBy("onAfterCall", a)
       /\ \A h1 \in HookCallsOf("onBeforeCall", b), h2 \in HookCallsOf("onAfterCall", b) : h1 < h2
  /\ \A id \in Msg : (WaitMsg(id, "log") \/ WaitMsg(id, "after")) =>
       /\ HookCallsBy("onBeforeCall", id) = {}
       /\ id \notin invoked
       /\ calls[id].pc \notin {"onBeforeCall", "method"}

\* A whole operation ran: its `before` message had its method invoked and
\* ended, a `log` came, and its `after` message reported the record.
WaitHooksPairedWitness ==
  \E b, l, a \in Msg :
    /\ b < l /\ l < a
    /\ WaitMsg(b, "before") /\ calls[b].pc = "done" /\ b \in invoked
    /\ WaitMsg(l, "log") /\ SameWait(l, a)
    /\ Closes(a) /\ LastBefore(a) = b
    /\ HookCallsBy("onAfterCall", a) # {}

====
